---- MODULE Spec2Model ----
(***************************************************************************)
(* Tile-grid movement prototype (bevy_wasm, src/main.rs and                *)
(* src/components/map_coordinates.rs).                                     *)
(*                                                                         *)
(* The world holds one Player entity (Transform + MapCoordinates), a list  *)
(* of Action entities in spawn order and, optionally, the MovementChord    *)
(* resource.  Two systems act on it: keyboard_movement (FixedUpdate) and   *)
(* consume_action (Update).                                                *)
(*                                                                         *)
(* Units.  Action timers and the Update delta are counted in units of      *)
(* 0.15 s (0.3 s = 2); the chord timer and the FixedUpdate delta in        *)
(* milliseconds (0.04 s = 40, the 64 Hz fixed timestep = 16).  The two     *)
(* systems read different clocks, so the units never meet.  Translations are pixels; every lerp the model        *)
(* computes is an exact integer (48 * elapsed / duration with duration 2   *)
(* or 4).  Action.time_started is only read by a log line and is left out, *)
(* as is the debug overlay (F1), which touches no Action, chord or         *)
(* position.                                                               *)
(***************************************************************************)
EXTENDS Integers, Sequences, FiniteSets, TLC

\* ------------------------------------------------------------------ constants
TILE_SIZE_IN_PX == 48
WORLD_SIZE == 16
chunk_size == 16
StepDuration == 2
ChordDuration == 40
FixedTimestep == 16
I32Max == 2147483647

\* --------------------------------------------------------------------- bounds
MaxActions == 2
MaxDelta == 3
MaxWalk == 1
MaxOver == 2

\* ---------------------------------------------------------------------- state
VARIABLES
    status,        \* "running", or "panicked" once an unwrap() has failed
    player_alive,  \* the Player entity still resolves in entities_with_transforms
    origin,        \* MapCoordinates.origin of the player
    translation,   \* Transform.translation of the player (x, y; z stays 0)
    actions,       \* live Action components, in spawn order
    chord,         \* MovementChord resource, or NoChord when never inserted
    last,          \* history: what the last system run did
    probe          \* history: the last MapCoordinates conversion applied alone

vars == <<status, player_alive, origin, translation, actions, chord, last, probe>>

\* ------------------------------------------------------------------- vectors
IVec3(x, y, z) == [x |-> x, y |-> y, z |-> z]
ZERO == IVec3(0, 0, 0)
Vec2(x, y) == [x |-> x, y |-> y]

length_squared(v) == v.x * v.x + v.y * v.y + v.z * v.z

\* --------------------------------------------------------- MapCoordinates
\* add_direction: the y component is negated before it is accumulated.
add_direction_unflipped(o, vec) == IVec3(o.x + vec.x, o.y + vec.y, o.z + vec.z)

add_direction_flipped_x(o, vec) ==
    IVec3(o.x + vec.x * (-1), o.y + vec.y, o.z + vec.z)

add_direction(o, vec) == IVec3(o.x + vec.x, o.y + vec.y * (-1), o.z + vec.z)

\* from_uvec2: i32::try_from(index).unwrap() fails above i32::MAX.
from_uvec2_traps(index) == index.x > I32Max \/ index.y > I32Max

from_uvec2_uncentred(index) == IVec3(index.x, index.y, 0)

from_uvec2(index) ==
    IVec3(index.x - WORLD_SIZE \div 2, index.y - WORLD_SIZE \div 2, 0)

\* as_uvec2: u32::try_from(..).unwrap() fails exactly on a negative sum.
as_uvec2_traps(o) == o.x + WORLD_SIZE \div 2 < 0 \/ o.y + WORLD_SIZE \div 2 < 0

as_uvec2(o) == Vec2(o.x + WORLD_SIZE \div 2, o.y + WORLD_SIZE \div 2)

\* ------------------------------------------------------------- tile anchors
\* TilemapChunk::calculate_tile_transform for the chunk built in setup:
\* index * tile size + half a tile - half the chunk, per axis.
calculate_tile_transform(index) ==
    Vec2(index.x * TILE_SIZE_IN_PX + TILE_SIZE_IN_PX \div 2
             - (TILE_SIZE_IN_PX * chunk_size) \div 2,
         index.y * TILE_SIZE_IN_PX + TILE_SIZE_IN_PX \div 2
             - (TILE_SIZE_IN_PX * chunk_size) \div 2)

\* Vec3::lerp(a, b, s) = a + (b - a) * s with s = elapsed / duration.
lerp(a, b, t) ==
    IF t.duration = 0 THEN b
    ELSE Vec2(a.x + ((b.x - a.x) * t.elapsed) \div t.duration,
              a.y + ((b.y - a.y) * t.elapsed) \div t.duration)

\* -------------------------------------------------------------------- timers
\* Timer::new(duration, TimerMode::Once)
NewTimer(duration) == [elapsed |-> 0, duration |-> duration, finished |-> FALSE]

\* Timer::tick for TimerMode::Once: a finished timer ignores the tick,
\* otherwise elapsed grows, is clamped to the duration, and finished is set.
TimerTick_unclamped(t, delta) ==
    IF t.finished THEN t
    ELSE [t EXCEPT !.elapsed = t.elapsed + delta,
                   !.finished = t.elapsed + delta >= t.duration]

TimerTick_never_finished(t, delta) ==
    IF t.elapsed + delta >= t.duration
    THEN [t EXCEPT !.elapsed = t.duration]
    ELSE [t EXCEPT !.elapsed = t.elapsed + delta]

TimerTick(t, delta) ==
    IF t.finished THEN t
    ELSE IF t.elapsed + delta >= t.duration
         THEN [t EXCEPT !.elapsed = t.duration, !.finished = TRUE]
         ELSE [t EXCEPT !.elapsed = t.elapsed + delta]

\* ------------------------------------------------------------------- actions
PlayerEntity == "player"

make_movement_action_fixed_duration(direction, entity) ==
    [target_entity |-> entity,
     direction     |-> direction,
     timer         |-> NewTimer(StepDuration)]

make_movement_action(direction, entity) ==
    [target_entity |-> entity,
     direction     |-> direction,
     timer         |-> NewTimer(length_squared(direction) * StepDuration)]

\* Query::get_mut(action.target_entity) on
\* Query<(&mut Transform, &mut MapCoordinates), With<Player>>
Resolves_stale(entity, alive) == entity = PlayerEntity

Resolves(entity, alive) == entity = PlayerEntity /\ alive

\* HashSet::insert returns false when the value was already in the set.
insert_unchecked(set, value) == TRUE

insert(set, value) == value \notin set

\* ----------------------------------------------------------- consume_action
\* One iteration of the loop body for the action at index i.  acc carries the
\* components the loop mutates in place, the per-tick HashSet, and which
\* deferred remove::<Action>() commands were queued.
consume_one_commit_at_finish(acc, i, delta, alive) ==
    LET action == acc.acts[i]
        timer == TimerTick(action.timer, delta)
        destination == add_direction(acc.origin, action.direction)
    IN  IF acc.trap THEN acc
        ELSE IF ~Resolves(action.target_entity, alive)
        THEN [acc EXCEPT !.outcome[i] = "invalid"]
        ELSE IF action.timer.finished
        THEN [acc EXCEPT !.origin = destination, !.outcome[i] = "commit"]
        ELSE IF ~insert(acc.seen, action.target_entity)
        THEN [acc EXCEPT !.outcome[i] = "duplicate"]
        ELSE IF as_uvec2_traps(acc.origin) \/ as_uvec2_traps(destination)
        THEN [acc EXCEPT !.trap = TRUE]
        ELSE [acc EXCEPT
                 !.seen = @ \cup {action.target_entity},
                 !.acts[i].timer = timer,
                 !.translation =
                     lerp(calculate_tile_transform(as_uvec2(acc.origin)),
                          calculate_tile_transform(as_uvec2(destination)),
                          timer),
                 !.origin = IF timer.finished THEN destination ELSE @,
                 !.outcome[i] = IF timer.finished THEN "commit" ELSE "advance"]

consume_one(acc, i, delta, alive) ==
    LET action == acc.acts[i] IN
    IF acc.trap THEN acc
    ELSE IF ~Resolves(action.target_entity, alive)
    THEN [acc EXCEPT !.outcome[i] = "invalid"]
    ELSE IF action.timer.finished
    THEN [acc EXCEPT !.origin = add_direction(@, action.direction),
                     !.outcome[i] = "commit"]
    ELSE IF ~insert(acc.seen, action.target_entity)
    THEN [acc EXCEPT !.outcome[i] = "duplicate"]
    ELSE LET timer == TimerTick(action.timer, delta)
             destination == add_direction(acc.origin, action.direction)
         IN  \* as_uvec2() of the current, then of the destination coordinates
             IF as_uvec2_traps(acc.origin) \/ as_uvec2_traps(destination)
             THEN [acc EXCEPT !.trap = TRUE]
             ELSE [acc EXCEPT
                      !.seen = @ \cup {action.target_entity},
                      !.acts[i].timer = timer,
                      !.translation =
                          lerp(calculate_tile_transform(as_uvec2(acc.origin)),
                               calculate_tile_transform(as_uvec2(destination)),
                               timer),
                      !.outcome[i] = "advance"]

RECURSIVE consume_loop(_, _, _, _)
consume_loop(acc, order, delta, alive) ==
    IF order = <<>> THEN acc
    ELSE consume_loop(consume_one(acc, Head(order), delta, alive),
                      Tail(order), delta, alive)

\* The orders in which Query<(Entity, &mut Action)> may yield n actions.
IterationOrders(n) == Permutations(1..n)

\* Subsequence of s at the indices in keep, in the order of s.
RECURSIVE Retain(_, _, _)
Retain(s, keep, i) ==
    IF i > Len(s) THEN <<>>
    ELSE (IF i \in keep THEN <<s[i]>> ELSE <<>>) \o Retain(s, keep, i + 1)

\* History record: the system that ran last, what consume_action did with
\* each action (by index at the start of the tick), the key pair the two-key
\* branch of keyboard_movement acted on, and the directions it spawned.
Quiet == [op |-> "setup", outcome |-> <<>>, pair |-> {}, spawned |-> <<>>]

NoIndex == Vec2(-1, -1)
NoProbe == [op |-> "none", before |-> ZERO, vec |-> ZERO, index |-> NoIndex,
            trapped |-> FALSE]

consume_result(order, delta) ==
    consume_loop([origin      |-> origin,
                  translation |-> translation,
                  seen        |-> {},
                  acts        |-> actions,
                  outcome     |-> [i \in 1..Len(actions) |-> "pending"],
                  trap        |-> FALSE],
                 order, delta, player_alive)

consume_action(delta, order) ==
    /\ status = "running"
    /\ \E r \in {consume_result(order, delta)} :
       IF r.trap
       THEN \* an unwrap() panicked: the process stops, nothing is observed
            /\ status' = "panicked"
            /\ last' = [Quiet EXCEPT !.op = "consume"]
            /\ UNCHANGED <<player_alive, origin, translation, actions, chord,
                           probe>>
       ELSE /\ origin' = r.origin
            /\ translation' = r.translation
            /\ actions' = Retain(r.acts,
                                 {i \in 1..Len(actions) : r.outcome[i] = "advance"},
                                 1)
            /\ last' = [Quiet EXCEPT !.op = "consume", !.outcome = r.outcome]
            /\ UNCHANGED <<status, player_alive, chord, probe>>

\* -------------------------------------------------------- keyboard_movement
MovementKeys == {"KeyE", "KeyS", "KeyD", "KeyF"}
OtherKey == "KeyA"
NoKey == "None"

\* MovementChord::default(), and the resource not being in the world.
MovementChordDefault ==
    [present |-> TRUE, first_key |-> NoKey, timer |-> NewTimer(ChordDuration)]
NoChord == [MovementChordDefault EXCEPT !.present = FALSE]

\* direction of the two-keys-in-one-tick branch
TwoKeyDirection_as_chord(pressed) ==
    IVec3((IF "KeyS" \in pressed THEN 1 ELSE 0)
              + (IF "KeyF" \in pressed THEN -1 ELSE 0),
          (IF "KeyE" \in pressed THEN 1 ELSE 0)
              + (IF "KeyD" \in pressed THEN -1 ELSE 0),
          0)

TwoKeyDirection(pressed) ==
    IVec3((IF "KeyS" \in pressed THEN -1 ELSE 0)
              + (IF "KeyF" \in pressed THEN 1 ELSE 0),
          (IF "KeyE" \in pressed THEN 1 ELSE 0)
              + (IF "KeyD" \in pressed THEN -1 ELSE 0),
          0)

\* direction of the chord-expiry branch (the match on first_key)
ChordDirection_other_moves(key) ==
    CASE key = "KeyE" -> IVec3(0, 1, 0)
      [] key = "KeyD" -> IVec3(0, -1, 0)
      [] key = "KeyS" -> IVec3(1, 0, 0)
      [] key = "KeyF" -> IVec3(-1, 0, 0)
      [] OTHER -> IVec3(0, 0, 1)

ChordDirection(key) ==
    CASE key = "KeyE" -> IVec3(0, 1, 0)
      [] key = "KeyD" -> IVec3(0, -1, 0)
      [] key = "KeyS" -> IVec3(1, 0, 0)
      [] key = "KeyF" -> IVec3(-1, 0, 0)
      [] OTHER -> ZERO

\* the closure compute_movement_action: spawn unless the direction is zero
compute_movement_action_unguarded(direction) ==
    <<make_movement_action(direction, PlayerEntity)>>

compute_movement_action(direction) ==
    IF direction # ZERO
    THEN <<make_movement_action(direction, PlayerEntity)>>
    ELSE <<>>

keyboard_movement(just_pressed, delta) ==
    /\ status = "running"
    /\ IF ~player_alive
       THEN \* player_query.single_inner() failed: early return
            /\ last' = [Quiet EXCEPT !.op = "keyboard"]
            /\ UNCHANGED <<status, player_alive, origin, translation, actions,
                           chord, probe>>
       ELSE LET pressed_movement_keys == just_pressed \cap MovementKeys
                from_keys ==
                    IF Cardinality(pressed_movement_keys) = 2
                    THEN compute_movement_action(TwoKeyDirection(pressed_movement_keys))
                    ELSE <<>>
                pending == chord.present /\ chord.first_key # NoKey
                timer == IF pending THEN TimerTick(chord.timer, delta)
                         ELSE chord.timer
                from_chord ==
                    IF pending /\ timer.finished
                    THEN compute_movement_action(ChordDirection(chord.first_key))
                    ELSE <<>>
            IN  /\ actions' = actions \o from_keys \o from_chord
                /\ Len(actions') <= MaxActions
                /\ chord' = [chord EXCEPT !.timer = timer]
                /\ last' = [Quiet EXCEPT
                               !.op = "keyboard",
                               !.pair = IF Cardinality(pressed_movement_keys) = 2
                                        THEN pressed_movement_keys ELSE {},
                               !.spawned =
                                   [i \in 1..Len(from_keys \o from_chord) |->
                                       (from_keys \o from_chord)[i].direction]]
                /\ UNCHANGED <<status, player_alive, origin, translation, probe>>

\* -------------------------------------------------------------------- setup
setup ==
    /\ status = "running"
    /\ player_alive = TRUE
    /\ origin = ZERO
    /\ translation = calculate_tile_transform(as_uvec2(ZERO))
    /\ actions = <<>>
    /\ last = Quiet
    /\ probe = NoProbe

\* ----------------------------------------------------------- specifications
\* The program as main() wires it: no system inserts MovementChord.
Init == setup /\ chord = NoChord

\* Every set of direction keys, and one with a key that is no direction.
JustPressedInputs == (SUBSET MovementKeys) \cup {{"KeyE", "KeyS", OtherKey}}

FixedUpdate ==
    \E just_pressed \in JustPressedInputs :
        keyboard_movement(just_pressed, FixedTimestep)

\* The part of the grid the player is followed on: up to MaxWalk tiles
\* right of and below the centre tile.
InWindow(o) == o.x \in 0..MaxWalk /\ o.y \in 0..MaxWalk

Update ==
    \E delta \in 0..MaxDelta, order \in IterationOrders(Len(actions)) :
        consume_action(delta, order) /\ InWindow(origin')

Next == FixedUpdate \/ Update

Spec == Init /\ [][Next]_vars

\* The same program walked along the diagonal of the map, as far as the
\* code lets it go: E+S steps up and left, D+F steps down and right.
WalkKeys ==
    \E just_pressed \in {{"KeyE", "KeyS"}, {"KeyD", "KeyF"}} :
        keyboard_movement(just_pressed, FixedTimestep)

WalkTick ==
    \E delta \in 1..MaxDelta, order \in IterationOrders(Len(actions)) :
        /\ consume_action(delta, order)
        /\ origin'.x <= WORLD_SIZE \div 2 + MaxOver

NextWalk == WalkKeys \/ WalkTick

SpecWalk == Init /\ [][NextWalk]_vars

\* The entity store is not owned by the two systems: the player may stop
\* resolving (despawned, or stripped of Player, Transform or MapCoordinates).
DespawnPlayer ==
    /\ status = "running"
    /\ player_alive
    /\ player_alive' = FALSE
    /\ last' = [Quiet EXCEPT !.op = "despawn"]
    /\ UNCHANGED <<status, origin, translation, actions, chord, probe>>

NextWorld == Next \/ DespawnPlayer

SpecWorld == Init /\ [][NextWorld]_vars

\* The program with the Update schedule kept running: frames with a positive
\* delta are taken again and again (weak fairness), frames with a zero delta
\* and FixedUpdate runs may come in between, and the player may be
\* despawned.  Keys are pressed only while the player is inside the window,
\* which keeps the walk finite without ever holding back a frame.
LiveKeys ==
    \E just_pressed \in {{"KeyD", "KeyF"}, {"KeyE", "KeyS"}} :
        /\ keyboard_movement(just_pressed, FixedTimestep)
        /\ actions' # actions => InWindow(origin)

PositiveTick ==
    \E delta \in 1..MaxDelta, order \in IterationOrders(Len(actions)) :
        consume_action(delta, order)

IdleTick ==
    \E order \in IterationOrders(Len(actions)) : consume_action(0, order)

NextLive == LiveKeys \/ PositiveTick \/ IdleTick \/ DespawnPlayer

SpecLive == Init /\ [][NextLive]_vars /\ WF_vars(PositiveTick)

\* The program with an occasional long frame: an Update whose delta is longer
\* than the 0.6 s of a diagonal move.
LongFrame ==
    \E order \in IterationOrders(Len(actions)) :
        consume_action(2 * StepDuration + 1, order) /\ InWindow(origin')

NextFrames == FixedUpdate \/ Update \/ LongFrame

SpecFrames == Init /\ [][NextFrames]_vars

\* keyboard_movement takes the MovementChord resource as Option<ResMut<..>>:
\* here it is in the world, idle or with a pending key.
ChordInputs ==
    {[MovementChordDefault EXCEPT !.first_key = k] :
        k \in {NoKey, OtherKey} \cup MovementKeys}

InitChord == setup /\ chord \in ChordInputs

SpecChord == InitChord /\ [][Next]_vars

\* ------------------------------------------- MapCoordinates taken on its own
\* The three conversions applied to coordinates and indices drawn from a
\* range that overlaps the map by MaxOver on every side; from_uvec2 is
\* applied to a fresh index, the other two to whatever origin results.
CoordRange == (-(WORLD_SIZE \div 2) - MaxOver)..(WORLD_SIZE \div 2 + MaxOver)
IndexRange == 0..(WORLD_SIZE + MaxOver)
Directions == {IVec3(x, y, 0) : x \in -1..1, y \in -1..1}

InitCoords ==
    /\ status = "running"
    /\ player_alive = TRUE
    /\ origin \in {IVec3(x, y, 0) : x \in CoordRange, y \in CoordRange}
    /\ translation = Vec2(0, 0)
    /\ actions = <<>>
    /\ chord = NoChord
    /\ last = Quiet
    /\ probe = NoProbe

ApplyAsUvec2 ==
    /\ probe' = [NoProbe EXCEPT
                    !.op = "as_uvec2",
                    !.trapped = as_uvec2_traps(origin),
                    !.index = IF as_uvec2_traps(origin) THEN NoIndex
                              ELSE as_uvec2(origin)]
    /\ UNCHANGED <<status, player_alive, origin, translation, actions, chord, last>>

ApplyAddDirection ==
    \E vec \in Directions :
        /\ origin' = add_direction(origin, vec)
        /\ origin'.x \in CoordRange /\ origin'.y \in CoordRange
        /\ probe' = [NoProbe EXCEPT !.op = "add_direction", !.before = origin,
                                    !.vec = vec]
        /\ UNCHANGED <<status, player_alive, translation, actions, chord, last>>

ApplyFromUvec2 ==
    \E x \in IndexRange, y \in IndexRange :
        /\ probe.op = "none"
        /\ origin' = IF from_uvec2_traps(Vec2(x, y)) THEN origin
                      ELSE from_uvec2(Vec2(x, y))
        /\ probe' = [NoProbe EXCEPT !.op = "from_uvec2", !.index = Vec2(x, y),
                                    !.trapped = from_uvec2_traps(Vec2(x, y))]
        /\ UNCHANGED <<status, player_alive, translation, actions, chord, last>>

NextCoords == ApplyAsUvec2 \/ ApplyAddDirection \/ ApplyFromUvec2

SpecCoords == InitCoords /\ [][NextCoords]_vars

\* =================================================================== claims
\* Shorthands over a tick of consume_action: a step whose history says
\* consume_action ran and returned.
ConsumeTick == last'.op = "consume" /\ status' = "running"

Unfinished(acts) == {i \in 1..Len(acts) : ~acts[i].timer.finished}

OutcomeIs(o) == {i \in 1..Len(last.outcome) : last.outcome[i] = o}

\* C1: when a tick of consume_action starts with two or more unfinished
\* Actions on the resolvable player, exactly one of them is ticked and stays
\* live and every other one is removed as a duplicate, for every iteration
\* order.
C1_OneSurvivor ==
    [][(ConsumeTick /\ player_alive /\ Cardinality(Unfinished(actions)) >= 2)
        => \E k \in Unfinished(actions) :
              /\ last'.outcome[k] = "advance"
              /\ \A j \in Unfinished(actions) \ {k} :
                     last'.outcome[j] = "duplicate"
              /\ Len(actions') = 1
              /\ actions'[1].target_entity = actions[k].target_entity
              /\ actions'[1].direction = actions[k].direction]_vars

C1_Witness ==
    /\ status = "running"
    /\ last.op = "consume"
    /\ Cardinality(OutcomeIs("advance")) = 1
    /\ Cardinality(OutcomeIs("duplicate")) >= 1
    /\ Len(actions) = 1

\* C2: when a tick starts with a running Action (timer already advanced) and
\* a newer, not yet advanced Action on the same player, the newer one is
\* discarded and the original is the one kept, in every iteration order.
C2_OriginalKept ==
    [][(ConsumeTick /\ player_alive)
        => \A i, j \in Unfinished(actions) :
              (i < j /\ actions[i].timer.elapsed > 0 /\ actions[j].timer.elapsed = 0)
                  => /\ last'.outcome[i] = "advance"
                     /\ last'.outcome[j] = "duplicate"]_vars

\* The displacement a set of committed actions adds up to, y inverted.
RECURSIVE Displaced(_, _, _)
Displaced(o, acts, committed) ==
    IF committed = {} THEN o
    ELSE LET i == CHOOSE k \in committed : TRUE
             d == acts[i].direction
         IN  Displaced(IVec3(o.x + d.x, o.y - d.y, o.z + d.z), acts,
                       committed \ {i})

\* C3: the player's origin changes only in the commit step of consume_action:
\* a tick moves it by (x, -y, z) of exactly the actions it processes with a
\* finished timer and removes them, so none commits twice; interpolation,
\* duplicates, invalidated actions, keyboard_movement and the despawn leave
\* it alone.
C3_OnlyCommitMoves ==
    [][/\ ~ConsumeTick => origin' = origin
       /\ ConsumeTick =>
            LET committed == {i \in 1..Len(actions) : last'.outcome[i] = "commit"}
            IN  /\ committed = {i \in 1..Len(actions) :
                                    player_alive /\ actions[i].timer.finished}
                /\ origin' = Displaced(origin, actions, committed)
                /\ Len(actions') = Len(actions) - Cardinality(committed)
                       - Cardinality({i \in 1..Len(actions) :
                             last'.outcome[i] \in {"duplicate", "invalid"}})]_vars

C3_Witness ==
    /\ last.op = "consume"
    /\ last.outcome = <<"commit", "advance">>
    /\ origin = IVec3(1, 1, 0)
    /\ translation # calculate_tile_transform(as_uvec2(origin))

\* C4: once the player no longer resolves, the next tick removes every
\* Action that targets it, finished or not, all of them in that one tick,
\* and changes neither the origin nor the translation.
C4_InvalidRemoved ==
    [][(ConsumeTick /\ ~player_alive)
        => /\ \A i \in 1..Len(actions) : last'.outcome[i] = "invalid"
           /\ actions' = <<>>
           /\ origin' = origin
           /\ translation' = translation]_vars

C4_Witness ==
    /\ last.op = "consume"
    /\ ~player_alive
    /\ last.outcome = <<"invalid", "invalid">>
    /\ actions = <<>>
    /\ translation # calculate_tile_transform(as_uvec2(origin))

\* The end-to-end example: the player on index (8, 8), one Action with
\* direction (1, 0, 0) and the 0.3 s timer.
StepRight == IVec3(1, 0, 0)

LoneStepRight(acts) ==
    /\ Len(acts) = 1
    /\ acts[1].direction = StepRight
    /\ acts[1].timer.duration = StepDuration

\* the tick in which the example's timer reaches its 0.3 s
ExampleTimerCompletes ==
    /\ ConsumeTick
    /\ origin = ZERO
    /\ LoneStepRight(actions) /\ ~actions[1].timer.finished
    /\ LoneStepRight(actions') /\ actions'[1].timer.finished

\* C5 as claimed: once the ticks have accumulated the 0.3 s, the index is
\* (9, 8) and the translation is the anchor of (9, 8).
C5_AsClaimed ==
    [][ExampleTimerCompletes
        => /\ as_uvec2(origin') = Vec2(9, 8)
           /\ translation' = calculate_tile_transform(Vec2(9, 8))]_vars

\* C5 amended: the tick in which the timer reaches 0.3 s puts the translation
\* on the anchor of (9, 8) and leaves the index at (8, 8); the next tick
\* commits, so the index is (9, 8), the translation still that anchor, and
\* the Action is gone.
C5_MoveCompletes ==
    [][/\ ExampleTimerCompletes
            => /\ as_uvec2(origin') = Vec2(8, 8)
               /\ translation' = calculate_tile_transform(Vec2(9, 8))
               /\ actions'[1].timer.elapsed = StepDuration
       /\ ( /\ ConsumeTick
            /\ origin = ZERO
            /\ LoneStepRight(actions) /\ actions[1].timer.finished
            /\ translation = calculate_tile_transform(Vec2(9, 8)) )
            => /\ as_uvec2(origin') = Vec2(9, 8)
               /\ translation' = calculate_tile_transform(Vec2(9, 8))
               /\ actions' = <<>>]_vars

C5_Witness ==
    /\ last.op = "consume"
    /\ last.outcome = <<"commit">>
    /\ chord.first_key = "KeyS"
    /\ actions = <<>>
    /\ as_uvec2(origin) = Vec2(9, 8)
    /\ translation = calculate_tile_transform(Vec2(9, 8))

\* The half-open range [-extent/2, +extent/2) on the x and y axes.
InRange(o) ==
    /\ o.x >= -(WORLD_SIZE \div 2) /\ o.x < WORLD_SIZE \div 2
    /\ o.y >= -(WORLD_SIZE \div 2) /\ o.y < WORLD_SIZE \div 2

\* C6: whatever keys are pressed and however the ticks fall, the player's
\* origin stays within [-8, 8) on both axes and no index conversion of
\* consume_action traps.
C6_StaysInRange == status = "running" /\ InRange(origin)

\* C7: as_uvec2 traps exactly when the origin is outside [-8, 8) on the x or
\* the y axis, and otherwise returns origin + 8 on each axis.
C7_TrapsOutsideRange ==
    probe.op = "as_uvec2"
        => /\ probe.trapped <=> ~InRange(origin)
           /\ InRange(origin)
                  => probe.index = Vec2(origin.x + 8, origin.y + 8)

\* C8: from_uvec2 does not fail on an index within [0, extent) on both axes,
\* and as_uvec2 of its result is that index again.
C8_RoundTrip ==
    ( /\ probe.op = "from_uvec2"
      /\ probe.index.x \in 0..(WORLD_SIZE - 1)
      /\ probe.index.y \in 0..(WORLD_SIZE - 1) )
        => /\ ~probe.trapped
           /\ ~as_uvec2_traps(origin)
           /\ as_uvec2(origin) = probe.index

C8_Witness ==
    /\ probe.op = "from_uvec2"
    /\ probe.index = Vec2(15, 0)
    /\ origin = IVec3(7, -8, 0)

\* C9: between two origins in range, add_direction((1, 0, 0)) raises the
\* x index by one and keeps the y index, and add_direction((0, 1, 0)) lowers
\* the y index by one and keeps the x index.
C9_VerticalInversion ==
    (probe.op = "add_direction" /\ InRange(probe.before) /\ InRange(origin))
        => /\ probe.vec = IVec3(1, 0, 0)
                => as_uvec2(origin) = Vec2(as_uvec2(probe.before).x + 1,
                                          as_uvec2(probe.before).y)
           /\ probe.vec = IVec3(0, 1, 0)
                => as_uvec2(origin) = Vec2(as_uvec2(probe.before).x,
                                          as_uvec2(probe.before).y - 1)

C9_Witness ==
    /\ probe.op = "add_direction"
    /\ probe.vec = IVec3(0, 1, 0)
    /\ probe.before = ZERO
    /\ as_uvec2(origin) = Vec2(8, 7)

\* The unit step each direction key stands for when two keys are pressed
\* together: E forward, D back, S left, F right.
KeyStep(key) ==
    CASE key = "KeyE" -> IVec3(0, 1, 0)
      [] key = "KeyD" -> IVec3(0, -1, 0)
      [] key = "KeyS" -> IVec3(-1, 0, 0)
      [] key = "KeyF" -> IVec3(1, 0, 0)

NonOpposingPairs ==
    {{"KeyE", "KeyS"}, {"KeyE", "KeyF"}, {"KeyD", "KeyS"}, {"KeyD", "KeyF"}}

\* C10: a tick of keyboard_movement with exactly two non-opposing direction
\* keys newly pressed appends exactly one Action, for the player, whose
\* direction is the sum of the two keys' unit steps.
C10_OneDiagonalAction ==
    [][(last'.op = "keyboard" /\ last'.pair \in NonOpposingPairs)
        => \E a, b \in last'.pair :
              /\ a # b
              /\ Len(actions') = Len(actions) + 1
              /\ SubSeq(actions', 1, Len(actions)) = actions
              /\ actions'[Len(actions')].target_entity = PlayerEntity
              /\ actions'[Len(actions')].direction =
                     IVec3(KeyStep(a).x + KeyStep(b).x,
                           KeyStep(a).y + KeyStep(b).y,
                           KeyStep(a).z + KeyStep(b).z)]_vars

C10_Witness ==
    /\ last.op = "keyboard"
    /\ last.pair = {"KeyE", "KeyS"}
    /\ last.spawned = <<IVec3(-1, 1, 0)>>
    /\ Len(actions) = 2
    /\ actions[2].direction = IVec3(-1, 1, 0)

OpposingPairs == {{"KeyE", "KeyD"}, {"KeyS", "KeyF"}}

\* C11: a tick of keyboard_movement with two opposing direction keys newly
\* pressed (E and D, or S and F) spawns nothing: the list of Actions is the
\* same after the tick.
C11_OpposingCancel ==
    [][(last'.op = "keyboard" /\ last'.pair \in OpposingPairs)
        => /\ last'.spawned = <<>>
           /\ actions' = actions]_vars

C11_Witness ==
    /\ last.op = "keyboard"
    /\ last.pair = {"KeyS", "KeyF"}
    /\ last.spawned = <<>>
    /\ Len(actions) = 1

\* C12: a tick of keyboard_movement appends at most one Action, whatever keys
\* are newly pressed and whatever state the MovementChord is in.
C12_AtMostOneAction ==
    [][last'.op = "keyboard"
        => /\ Len(last'.spawned) <= 1
           /\ Len(actions') <= Len(actions) + 1]_vars

\* The chord has a pending key and its timer reaches the 0.04 s in this tick.
ChordExpires ==
    /\ last'.op = "keyboard"
    /\ chord.present /\ chord.first_key \in MovementKeys
    /\ ~chord.timer.finished /\ chord'.timer.finished

\* C13: the tick in which a pending chord's timer expires spawns one Action
\* with the pending key's unit vector and puts the chord back to idle
\* (no pending key, timer rearmed); a later tick with an expired timer and no
\* key pair pressed spawns nothing.
C13_ChordResets ==
    [][/\ (ChordExpires /\ last'.pair = {})
            => /\ last'.spawned = <<ChordDirection(chord.first_key)>>
               /\ chord'.first_key = NoKey
               /\ chord'.timer = NewTimer(ChordDuration)
       /\ (last'.op = "keyboard" /\ chord.timer.finished /\ last'.pair = {})
            => last'.spawned = <<>>]_vars

\* C14: a tick of consume_action processes at most one Action of the player,
\* commits and timer advances counted together: never a commit and an
\* advance, nor two commits, in one tick.
C14_OneProcessedPerTick ==
    [][ConsumeTick
        => Cardinality({i \in 1..Len(actions) :
                           last'.outcome[i] \in {"commit", "advance"}}) <= 1]_vars

\* C15: a direction key resolved by the chord-expiry branch yields the
\* vector the same key contributes in the two-key branch.
C15_SameMapping ==
    ( /\ last.op = "keyboard" /\ last.pair = {}
      /\ chord.first_key \in MovementKeys
      /\ Len(last.spawned) = 1 )
        => last.spawned[1] = TwoKeyDirection({chord.first_key})

\* C16 as claimed: every Action has a direction of length 1 and the 0.3 s
\* timer, diagonals included.
C16_AsClaimed ==
    \A i \in 1..Len(actions) :
        /\ length_squared(actions[i].direction) = 1
        /\ actions[i].timer.duration = StepDuration

\* C16 amended: every Action has a direction of squared length 1 (one axis)
\* or 2 (two-key diagonal) and a timer of 0.3 s times that squared length:
\* 0.3 s for a single-axis step, 0.6 s for a diagonal.
C16_DurationByLength ==
    \A i \in 1..Len(actions) :
        LET d == actions[i].direction
        IN  /\ d.x \in -1..1 /\ d.y \in -1..1 /\ d.z = 0
            /\ \/ (length_squared(d) = 1
                      /\ actions[i].timer.duration = StepDuration)
                \/ (length_squared(d) = 2
                      /\ actions[i].timer.duration = 2 * StepDuration)

C16_Witness ==
    /\ last.op = "keyboard"
    /\ Len(actions) = 2
    /\ length_squared(actions[1].direction) = 2
    /\ actions[1].timer.duration = 2 * StepDuration
    /\ length_squared(actions[2].direction) = 1
    /\ actions[2].timer.duration = StepDuration

\* C17: every live Action has a nonzero direction and a timer of positive
\* duration, and a timer that has not been advanced is not finished; a tick
\* in which the chord expires with a pending key that is no direction key
\* spawns nothing.
C17_NoZeroAction ==
    [][/\ \A i \in 1..Len(actions') :
              /\ actions'[i].direction # ZERO
              /\ actions'[i].timer.duration > 0
              /\ actions'[i].timer.elapsed = 0 => ~actions'[i].timer.finished
       /\ ( /\ last'.op = "keyboard" /\ last'.pair = {}
            /\ chord.first_key = OtherKey /\ chord'.timer.finished )
            => /\ last'.spawned = <<>>
               /\ actions' = actions]_vars

C17_Witness ==
    /\ last.op = "keyboard"
    /\ last.pair = {}
    /\ chord.first_key = OtherKey
    /\ chord.timer.finished
    /\ last.spawned = <<>>
    /\ Len(actions) = 1
    /\ actions[1].timer.elapsed = 0

\* The oldest live Action (the head of the spawn-ordered list) was removed by
\* the tick that ran last.
HeadRemoved ==
    /\ last.op = "consume"
    /\ Len(last.outcome) >= 1
    /\ last.outcome[1] \in {"commit", "invalid", "duplicate"}

\* C18: with consume_action run again and again with a positive delta, the
\* oldest live Action is always eventually removed, as committed, invalidated
\* or duplicate, unless a conversion has trapped; so every Action, which has
\* finitely many older ones before it, is eventually removed.  A tick gives
\* every Action exactly one outcome, removes all but the advanced ones, and
\* leaves no Action that was not there before it.
C18_EventuallyRemoved ==
    /\ [][ConsumeTick
            => /\ \A i \in 1..Len(actions) :
                      last'.outcome[i] \in {"commit", "invalid", "duplicate",
                                            "advance"}
               /\ Len(actions') = Cardinality({i \in 1..Len(actions) :
                                                  last'.outcome[i] = "advance"})
               /\ \A j \in 1..Len(actions') :
                      \E i \in 1..Len(actions) :
                          /\ last'.outcome[i] = "advance"
                          /\ actions'[j].direction = actions[i].direction
                          /\ actions'[j].target_entity = actions[i].target_entity
                          /\ actions'[j].timer.elapsed >= actions[i].timer.elapsed]_vars
    /\ (Len(actions) > 0 /\ status = "running")
           ~> (HeadRemoved \/ status = "panicked")

C18_Witness ==
    /\ HeadRemoved
    /\ last.outcome = <<"commit">>
    /\ player_alive
    /\ actions = <<>>
    /\ origin # ZERO

\* C19: whenever no Action is live, the player's translation is the tile
\* anchor of the index of its origin.
C19_RestsOnAnchor ==
    (status = "running" /\ actions = <<>>)
        => translation = calculate_tile_transform(as_uvec2(origin))

\* C20: a tick never commits an Action whose timer was not already finished
\* when the tick began.  A lone unfinished Action stays live through the
\* tick with the origin unchanged, and if its timer finishes in the tick the
\* translation is the anchor of its destination; a lone finished Action is
\* committed and removed by the tick, the translation left as it is.
C20_CommitInLaterTick ==
    [][ConsumeTick
        => /\ \A i \in 1..Len(actions) :
                  last'.outcome[i] = "commit" => actions[i].timer.finished
           /\ (Len(actions) = 1 /\ player_alive /\ ~actions[1].timer.finished)
                  => /\ Len(actions') = 1
                     /\ origin' = origin
                     /\ actions'[1].timer.finished
                            => translation' = calculate_tile_transform(
                                   as_uvec2(add_direction(origin,
                                                          actions[1].direction)))
           /\ (Len(actions) = 1 /\ player_alive /\ actions[1].timer.finished)
                  => /\ actions' = <<>>
                     /\ origin' = add_direction(origin, actions[1].direction)
                     /\ translation' = translation]_vars

C20_Witness ==
    /\ last.op = "consume"
    /\ last.outcome = <<"advance">>
    /\ Len(actions) = 1
    /\ actions[1].timer.finished
    /\ actions[1].timer.elapsed = 2 * StepDuration
    /\ origin = ZERO
    /\ translation = calculate_tile_transform(
                         as_uvec2(add_direction(ZERO, actions[1].direction)))

====
